---- MODULE Spec2Model ----
(***************************************************************************)
(* Pipeline dashboard: the fetch / parse / normalize pass (fetchData), the *)
(* refresh scheduling around it (useEffect, setInterval, the refresh       *)
(* buttons) and the snapshot it publishes with setState.                   *)
(*                                                                         *)
(* The repository holds two versions of the App component; `variant`       *)
(* selects which one runs:                                                 *)
(*   "App"      src/App.tsx                                                *)
(*   "part_001" src/unnamed/part_001                                       *)
(***************************************************************************)
EXTENDS Integers, Sequences, FiniteSets, TLC

VARIABLES
  variant,   \* which version of the App component runs
  state,     \* the DashboardState held by useState
  passes,    \* every fetchData call so far, in start order: trigger and position
  effect,    \* useEffect: "pending" before it runs, "run", "cleaned" after unmount
  timer,     \* TRUE while the setInterval timer is registered
  now,       \* the clock read by new Date()
  received,  \* history: the rows each successful pass normalized
  origin,    \* history: the pass whose publish last wrote the data fields
  input      \* the response text under study (single-pass specification)

vars == <<variant, state, passes, effect, timer, now, received, origin, input>>

(***************************************************************************)
(* Bounds                                                                  *)
(***************************************************************************)
\* total number of fetchData calls in one behaviour
MaxPasses == 3

Variants == {"App", "part_001"}

(***************************************************************************)
(* JavaScript values                                                       *)
(***************************************************************************)
\* null for object-valued fields (kpis)
null == <<>>
\* null for the error field (string | null)
NoError == "<null>"
\* null for lastUpdated (Date | null); Dates are the positive clock values
NoDate == 0

Abs(n) == IF n < 0 THEN -n ELSE n

\* cells of a row: {v: number}, {v: string}, {v: boolean}, {v: null}, and a
\* null / missing cell
Num(n) == [t |-> "number", n |-> n, s |-> ""]
Str(s) == [t |-> "string", n |-> 0, s |-> s]
Bool(b) == [t |-> "boolean", n |-> 0, s |-> IF b THEN "true" ELSE "false"]
VNull == [t |-> "vnull", n |-> 0, s |-> ""]
NoCell == [t |-> "undefined", n |-> 0, s |-> ""]

\* a row {c: [...]}, and a row that is null or has no c
Row(cells) == [hasC |-> TRUE, c |-> cells]
NoRow == [hasC |-> FALSE, c |-> <<>>]

\* cells[i] with the source's 0-based index; out of range is undefined
At(cells, i) == IF i + 1 \in DOMAIN cells THEN cells[i + 1] ELSE NoCell

(***************************************************************************)
(* Normalization (the synchronous part of fetchData after the parse)       *)
(***************************************************************************)
\* a getNum that converts numeric-looking strings
getNumParsesStrings(cell) ==
  IF cell.t = "number" THEN cell.n
  ELSE IF cell.t = "string" /\ cell.s = "42" THEN 42
  ELSE IF cell.t = "string" /\ cell.s = "9" THEN 9
  ELSE 0

getNum(cell) == IF cell.t = "number" THEN cell.n ELSE 0

getStr(cell) ==
  CASE cell.t = "number" -> ToString(cell.n)
    [] cell.t = "string" -> cell.s
    [] cell.t = "boolean" -> cell.s
    [] OTHER -> ""

\* typeof cells[i]?.v === 'number'
IsNumber(cell) == cell.t = "number"

\* a summary read from the first row that has cells
firstRowWithCells(rows) ==
  LET with == {i \in DOMAIN rows : rows[i].hasC}
  IN IF with = {} THEN <<>>
     ELSE rows[CHOOSE i \in with : \A j \in with : i <= j].c

\* rows[0]?.c || []
firstRowCells(rows) == IF 1 \in DOMAIN rows /\ rows[1].hasC THEN rows[1].c ELSE <<>>

\* column of activeClientLoad: index 13 in App.tsx, 14 in part_001
LoadColumn(v) == IF v = "App" THEN 13 ELSE 14

Kpis(v, rows) ==
  LET cells == firstRowCells(rows)
      rate == getNum(At(cells, 3))
      load == getNum(At(cells, LoadColumn(v)))
  IN [ totalOpportunities |-> getNum(At(cells, 0)),
       qualifiedConversations |-> getNum(At(cells, 1)),
       convertedClients |-> getNum(At(cells, 2)),
       conversionRate |-> IF v = "App" THEN rate ELSE Abs(rate),
       totalRevenue |-> getNum(At(cells, 4)),
       activeClientLoad |-> IF v = "App" THEN load
                            ELSE IF load = 0 THEN 1 ELSE load ]

\* a revenue extraction with the label in column 6 and the amount in column 7
RevenueOfRowShifted(row) ==
  IF ~row.hasC THEN <<>>
  ELSE LET month == getStr(At(row.c, 6))
           rev == At(row.c, 7)
       IN IF month # "" /\ IsNumber(rev)
          THEN << [month |-> month, revenue |-> rev.n] >> ELSE <<>>

\* the entries one row pushes onto each series (zero or one entry)
RevenueOfRow(row) ==
  IF ~row.hasC THEN <<>>
  ELSE LET month == getStr(At(row.c, 5))
           rev == At(row.c, 6)
       IN IF month # "" /\ IsNumber(rev)
          THEN << [month |-> month, revenue |-> rev.n] >> ELSE <<>>

\* an activity extraction that does not test the label
WeeklyOfRowAnyLabel(row) ==
  IF ~row.hasC THEN <<>>
  ELSE LET week == getStr(At(row.c, 7))
           count == At(row.c, 8)
       IN IF IsNumber(count)
          THEN << [week |-> week, count |-> count.n] >> ELSE <<>>

WeeklyOfRow(row) ==
  IF ~row.hasC THEN <<>>
  ELSE LET week == getStr(At(row.c, 7))
           count == At(row.c, 8)
       IN IF week # "" /\ IsNumber(count)
          THEN << [week |-> week, count |-> count.n] >> ELSE <<>>

SourceOfRow(v, row) ==
  IF ~row.hasC THEN <<>>
  ELSE LET source == getStr(At(row.c, 9))
           rate == At(row.c, 12)
       IN IF source # "" /\ IsNumber(rate)
          THEN IF v = "App"
               THEN << [source |-> source,
                        qualified |-> getNum(At(row.c, 10)),
                        converted |-> getNum(At(row.c, 11)),
                        rate |-> rate.n] >>
               ELSE << [source |-> source,
                        qualified |-> getNum(At(row.c, 10)),
                        converted |-> getNum(At(row.c, 11)),
                        rate |-> Abs(rate.n),
                        revenue |-> getNum(At(row.c, 13))] >>
          ELSE <<>>

RECURSIVE RevenueTrend(_)
RevenueTrend(rows) ==
  IF rows = <<>> THEN <<>>
  ELSE RevenueOfRow(Head(rows)) \o RevenueTrend(Tail(rows))

RECURSIVE WeeklyConversations(_)
WeeklyConversations(rows) ==
  IF rows = <<>> THEN <<>>
  ELSE WeeklyOfRow(Head(rows)) \o WeeklyConversations(Tail(rows))

RECURSIVE SourceConversions(_, _)
SourceConversions(v, rows) ==
  IF rows = <<>> THEN <<>>
  ELSE SourceOfRow(v, Head(rows)) \o SourceConversions(v, Tail(rows))

(***************************************************************************)
(* The response body and parseGoogleSheetsJSON                             *)
(***************************************************************************)
\* A JSON document: null, a value without table.rows (a scalar, an object
\* without table, a table without rows, an empty rows array is "array" with
\* no rows), a rows array, or a truthy rows value that is not an array.
Doc(kind, rows) == [kind |-> kind, rows |-> rows]
TableDoc(rows) == Doc("array", rows)
NullDoc == Doc("null", <<>>)
NoRowsDoc == Doc("norows", <<>>)
NonArrayDoc == Doc("nonarray", <<>>)

\* The body is a sequence of pieces: "(" and ")" characters, other
\* characters that are not JSON ("x"), and maximal runs of JSON text ("json").
Piece(k, doc) == [k |-> k, doc |-> doc]
LParen == Piece("(", NullDoc)
RParen == Piece(")", NullDoc)
Junk == Piece("x", NullDoc)
Json(doc) == Piece("json", doc)

Min(a, b) == IF a < b THEN a ELSE b
Max(a, b) == IF a > b THEN a ELSE b

\* String.prototype.indexOf / lastIndexOf: 0-based, -1 when absent
indexOf(text, k) ==
  LET hits == {i \in DOMAIN text : text[i].k = k}
  IN IF hits = {} THEN -1 ELSE (CHOOSE i \in hits : \A j \in hits : i <= j) - 1

lastIndexOf(text, k) ==
  LET hits == {i \in DOMAIN text : text[i].k = k}
  IN IF hits = {} THEN -1 ELSE (CHOOSE i \in hits : \A j \in hits : i >= j) - 1

\* String.prototype.substring: clamps both indices to [0, length] and swaps
\* them when start > end
substring(text, start, end) ==
  LET a == Min(Max(start, 0), Len(text))
      b == Min(Max(end, 0), Len(text))
      lo == Min(a, b)
      hi == Max(a, b)
  IN SubSeq(text, lo + 1, hi)

\* a parse that stops at the first ")" instead of the last
parseToFirstClose(text) ==
  LET jsonString == substring(text, indexOf(text, "(") + 1, indexOf(text, ")"))
  IN IF Len(jsonString) = 1 /\ jsonString[1].k = "json"
     THEN [ok |-> TRUE, rawData |-> jsonString[1].doc]
     ELSE [ok |-> FALSE, rawData |-> NullDoc]

\* JSON.parse succeeds exactly on one run of JSON text
parseGoogleSheetsJSON(text) ==
  LET jsonString == substring(text, indexOf(text, "(") + 1, lastIndexOf(text, ")"))
  IN IF Len(jsonString) = 1 /\ jsonString[1].k = "json"
     THEN [ok |-> TRUE, rawData |-> jsonString[1].doc]
     ELSE [ok |-> FALSE, rawData |-> NullDoc]

(***************************************************************************)
(* Error messages                                                          *)
(***************************************************************************)
MsgSyncFailed == "Data sync failed"
MsgInvalidFormat == "Invalid data format from Google Sheets"
MsgNoRecords == "No dataset records found"
\* messages of the TypeErrors the runtime raises
MsgNetwork == "Failed to fetch"
MsgBody == "network error"
MsgNullTable == "Cannot read properties of null (reading 'table')"
MsgForEach == "rows.forEach is not a function"
MsgSyncError == "Sync Error"

\* the message the catch block publishes for an error with message m
CaughtMessage(v, m) == IF v = "App" THEN MsgSyncError ELSE m

(***************************************************************************)
(* The synchronous tail of fetchData: parse, check, normalize              *)
(***************************************************************************)
Failure(m) ==
  [ok |-> FALSE, message |-> m, rows |-> <<>>, kpis |-> null, revenueTrend |-> <<>>,
   weeklyConversations |-> <<>>, sourceConversions |-> <<>>]

\* a pass without the rows.length === 0 check
ProcessAcceptsEmpty(v, text) ==
  LET parsed == parseGoogleSheetsJSON(text)
      rawData == parsed.rawData
  IN IF ~parsed.ok THEN Failure(MsgInvalidFormat)
     ELSE IF rawData.kind = "null" THEN Failure(MsgNullTable)
     ELSE IF rawData.kind = "norows" THEN Failure(MsgNoRecords)
     ELSE IF rawData.kind = "nonarray" THEN Failure(MsgForEach)
     ELSE [ok |-> TRUE, message |-> "", rows |-> rawData.rows,
           kpis |-> Kpis(v, rawData.rows),
           revenueTrend |-> RevenueTrend(rawData.rows),
           weeklyConversations |-> WeeklyConversations(rawData.rows),
           sourceConversions |-> SourceConversions(v, rawData.rows)]

Process(v, text) ==
  LET parsed == parseGoogleSheetsJSON(text)
      rawData == parsed.rawData
  IN IF ~parsed.ok THEN Failure(MsgInvalidFormat)
     ELSE IF rawData.kind = "null" THEN Failure(MsgNullTable)
     ELSE IF rawData.kind = "norows" THEN Failure(MsgNoRecords)
     ELSE IF rawData.kind = "nonarray" THEN Failure(MsgForEach)
     ELSE IF Len(rawData.rows) = 0 THEN Failure(MsgNoRecords)
     ELSE [ok |-> TRUE, message |-> "", rows |-> rawData.rows,
           kpis |-> Kpis(v, rawData.rows),
           revenueTrend |-> RevenueTrend(rawData.rows),
           weeklyConversations |-> WeeklyConversations(rawData.rows),
           sourceConversions |-> SourceConversions(v, rawData.rows)]

(***************************************************************************)
(* Sample responses                                                        *)
(***************************************************************************)
RowA ==
  Row(<< Num(10), Num(5), Num(2), Num(-4), Num(1000), Str("Jan"), Num(1000),
         Str("W1"), Num(7), Str("LinkedIn"), Num(3), Num(1), Num(-5), Num(200),
         Num(0) >>)
RowB ==
  Row(<< Num(20), Num(8), Num(4), Num(5), Num(3000), Str("Feb"), Num(3000),
         Str("W2"), Num(9), Str("Organic"), Num(6), Num(2), Num(3), Num(4),
         Num(6) >>)
RowC ==
  Row(<< Num(1), VNull, Str("2"), NoCell, Num(50), Str(""), Num(50),
         Num(0), Num(2), Str("LinkedIn"), Str("x"), NoCell, Num(1) >>)

Wrapped(doc) == << Junk, LParen, Json(doc), RParen, Junk >>

Bodies ==
  { Wrapped(TableDoc(<< RowA >>)),
    Wrapped(TableDoc(<< RowB, RowC, NoRow >>)),
    Wrapped(TableDoc(<< >>)),
    Wrapped(NullDoc),
    Wrapped(NoRowsDoc),
    Wrapped(NonArrayDoc),
    << Junk, Junk >> }

(***************************************************************************)
(* State                                                                   *)
(***************************************************************************)
InitialState ==
  [ kpis |-> null, revenueTrend |-> <<>>, weeklyConversations |-> <<>>,
    sourceConversions |-> <<>>, loading |-> TRUE, error |-> NoError,
    lastUpdated |-> NoDate ]

\* the time filters of part_001
Filters == {"7D", "30D", "90D", "All time"}

\* the object given to useState: part_001 keeps the selected time filter in it
InitialStateOf(v) ==
  IF v = "part_001"
  THEN [ kpis |-> null, revenueTrend |-> <<>>, weeklyConversations |-> <<>>,
         sourceConversions |-> <<>>, loading |-> TRUE, error |-> NoError,
         lastUpdated |-> NoDate, timeFilter |-> "All time" ]
  ELSE InitialState

Init ==
  /\ variant \in Variants
  /\ state = InitialStateOf(variant)
  /\ passes = <<>>
  /\ effect = "pending"
  /\ timer = FALSE
  /\ now = 1
  /\ received = <<>>
  /\ origin = 0
  /\ input = <<>>

mounted == effect # "cleaned"

\* the fetchData calls that have started and not yet reached their last setState
inflight == {p \in DOMAIN passes : passes[p].pc # "done"}

\* Array.prototype.sort((a,b) => b.rate - a.rate): stable, in place
RECURSIVE sortByRate(_)
sortByRate(s) ==
  IF s = <<>> THEN <<>>
  ELSE LET x == Head(s)
           rest == sortByRate(Tail(s))
           Higher(e) == e.rate > x.rate
           NotHigher(e) == e.rate <= x.rate
       IN SelectSeq(rest, Higher) \o <<x>> \o SelectSeq(rest, NotHigher)

\* the render that follows a state update: past the loading screen, App.tsx
\* sorts the sourceConversions array of the state itself; part_001 sorts a copy
Render(v, st) ==
  IF v = "App" /\ ~(st.loading /\ st.kpis = null)
  THEN [st EXCEPT !.sourceConversions = sortByRate(@)]
  ELSE st

\* setState that also writes after the component is gone
setStateUnguarded(next) == Render(variant, next)

\* the state-update function returned by useState: an update on an unmounted
\* component is dropped; a mounted one renders again
setState(next) == IF mounted THEN Render(variant, next) ELSE state

(***************************************************************************)
(* fetchData                                                               *)
(***************************************************************************)
\* a start that shows the loading state over emptied data
StartPassClearsData(trigger) ==
  /\ Len(passes) < MaxPasses
  /\ state' = setState([InitialStateOf(variant) EXCEPT !.loading = TRUE])
  /\ passes' = Append(passes, [trigger |-> trigger, pc |-> "fetch"])
  /\ received' = Append(received, <<>>)
  /\ UNCHANGED <<variant, input, now, origin>>

\* the call up to its first await
StartPass(trigger) ==
  /\ Len(passes) < MaxPasses
  /\ state' = setState([state EXCEPT !.loading = TRUE, !.error = NoError])
  /\ passes' = Append(passes, [trigger |-> trigger, pc |-> "fetch"])
  /\ received' = Append(received, <<>>)
  /\ UNCHANGED <<variant, input, now, origin>>

\* a catch block that falls back to the initial (empty) data
CatchResets(p, m) ==
  /\ state' = setState([InitialStateOf(variant) EXCEPT !.loading = FALSE,
                                            !.error = CaughtMessage(variant, m)])
  /\ passes' = [passes EXCEPT ![p].pc = "done"]
  /\ UNCHANGED <<variant, input, effect, timer, now, received, origin>>

\* the catch block
Catch(p, m) ==
  /\ state' = setState([state EXCEPT !.loading = FALSE,
                                     !.error = CaughtMessage(variant, m)])
  /\ passes' = [passes EXCEPT ![p].pc = "done"]
  /\ UNCHANGED <<variant, input, effect, timer, now, received, origin>>

\* the error field of the snapshot a success publishes: App.tsx writes
\* error: null, part_001 spreads prev and leaves it alone
SuccessError(v, prev) == IF v = "App" THEN NoError ELSE prev.error

\* a success setState of part_001 written as a literal around the new data
PublishedLiteral(v, prev, r, date) ==
  IF v = "App"
  THEN [ kpis |-> r.kpis, revenueTrend |-> r.revenueTrend,
         weeklyConversations |-> r.weeklyConversations,
         sourceConversions |-> r.sourceConversions,
         loading |-> FALSE, error |-> SuccessError(v, prev),
         lastUpdated |-> date ]
  ELSE [InitialStateOf(v) EXCEPT
          !.kpis = r.kpis, !.revenueTrend = r.revenueTrend,
          !.weeklyConversations = r.weeklyConversations,
          !.sourceConversions = r.sourceConversions,
          !.loading = FALSE, !.error = SuccessError(v, prev),
          !.lastUpdated = date]

\* the object the success setState writes: App.tsx a literal of seven fields,
\* part_001 prev => ({ ...prev, kpis, ..., loading: false, lastUpdated })
Published(v, prev, r, date) ==
  IF v = "App"
  THEN [ kpis |-> r.kpis, revenueTrend |-> r.revenueTrend,
         weeklyConversations |-> r.weeklyConversations,
         sourceConversions |-> r.sourceConversions,
         loading |-> FALSE, error |-> SuccessError(v, prev),
         lastUpdated |-> date ]
  ELSE [prev EXCEPT
          !.kpis = r.kpis, !.revenueTrend = r.revenueTrend,
          !.weeklyConversations = r.weeklyConversations,
          !.sourceConversions = r.sourceConversions,
          !.loading = FALSE, !.lastUpdated = date]

\* a publish that spreads prev over the revenue series
PublishKeepsRevenue(p, r) ==
  /\ state' = setState([Published(variant, state, r, now) EXCEPT
                          !.revenueTrend = state.revenueTrend])
  /\ passes' = [passes EXCEPT ![p].pc = "done"]
  /\ received' = [received EXCEPT ![p] = r.rows]
  /\ origin' = IF mounted THEN p ELSE origin
  /\ now' = now + 1
  /\ UNCHANGED <<variant, input, effect, timer>>

\* the setState at the end of the try block
Publish(p, r) ==
  /\ state' = setState(Published(variant, state, r, now))
  /\ passes' = [passes EXCEPT ![p].pc = "done"]
  /\ received' = [received EXCEPT ![p] = r.rows]
  /\ origin' = IF mounted THEN p ELSE origin
  /\ now' = now + 1
  /\ UNCHANGED <<variant, input, effect, timer>>

\* a catch block that also stamps lastUpdated
FetchRejectsStamps(p) ==
  /\ passes[p].pc = "fetch"
  /\ state' = setState([state EXCEPT !.loading = FALSE,
                                     !.error = CaughtMessage(variant, MsgNetwork),
                                     !.lastUpdated = now])
  /\ passes' = [passes EXCEPT ![p].pc = "done"]
  /\ UNCHANGED <<variant, input, effect, timer, now, received, origin>>

\* await fetch(SHEET_URL) rejects
FetchRejects(p) ==
  /\ passes[p].pc = "fetch"
  /\ Catch(p, MsgNetwork)

\* a fetchData that clears the error as soon as a response is ok
FetchResolvesClearsError(p, ok) ==
  /\ passes[p].pc = "fetch"
  /\ IF ok
     THEN /\ passes' = [passes EXCEPT ![p].pc = "text"]
          /\ state' = setState([state EXCEPT !.error = NoError])
          /\ UNCHANGED <<variant, input, effect, timer, now, received, origin>>
     ELSE Catch(p, MsgSyncFailed)

\* await fetch(SHEET_URL) resolves with response.ok = ok
FetchResolves(p, ok) ==
  /\ passes[p].pc = "fetch"
  /\ IF ok
     THEN /\ passes' = [passes EXCEPT ![p].pc = "text"]
          /\ UNCHANGED <<variant, input, state, effect, timer, now, received, origin>>
     ELSE Catch(p, MsgSyncFailed)

\* await response.text() rejects
TextRejects(p) ==
  /\ passes[p].pc = "text"
  /\ Catch(p, MsgBody)

\* a fetchData whose access to rawData.table sits outside the try block: the
\* TypeError of a null document leaves the call without any setState
TextResolvesEscapes(p, text) ==
  /\ passes[p].pc = "text"
  /\ LET r == Process(variant, text)
     IN IF r.ok THEN Publish(p, r)
        ELSE IF r.message = MsgNullTable
        THEN /\ passes' = [passes EXCEPT ![p].pc = "done"]
             /\ UNCHANGED <<variant, input, state, effect, timer, now, received, origin>>
        ELSE Catch(p, r.message)

\* await response.text() resolves; the rest of the call runs to its setState
TextResolves(p, text) ==
  /\ passes[p].pc = "text"
  /\ LET r == Process(variant, text)
     IN IF r.ok THEN Publish(p, r) ELSE Catch(p, r.message)

(***************************************************************************)
(* Scheduling: useEffect, the interval timer, the refresh buttons          *)
(***************************************************************************)
\* an effect body that forgets setInterval
MountWithoutTimer ==
  /\ effect = "pending"
  /\ StartPass("startup")
  /\ effect' = "run"
  /\ timer' = FALSE

\* the effect body: fetchData(); setInterval(fetchData, REFRESH_INTERVAL)
Mount ==
  /\ effect = "pending"
  /\ StartPass("startup")
  /\ effect' = "run"
  /\ timer' = TRUE

\* the interval fires
TimerTick ==
  /\ timer
  /\ StartPass("timer")
  /\ UNCHANGED <<effect, timer>>

\* a button with onClick={fetchData} is on screen and enabled
ButtonEnabled(v, st) ==
  IF v = "App"
  THEN ~(st.loading /\ st.kpis = null) /\ ~st.loading
  ELSE ~(st.loading /\ st.kpis = null)

ManualRefresh ==
  /\ effect = "run"
  /\ ButtonEnabled(variant, state)
  /\ StartPass("manual")
  /\ UNCHANGED <<effect, timer>>

\* a cleanup that forgets clearInterval
UnmountKeepsTimer ==
  /\ effect = "run"
  /\ effect' = "cleaned"
  /\ UNCHANGED <<variant, input, state, passes, timer, now, received, origin>>

\* the effect cleanup: clearInterval(timer)
Unmount ==
  /\ effect = "run"
  /\ effect' = "cleaned"
  /\ timer' = FALSE
  /\ UNCHANGED <<variant, input, state, passes, now, received, origin>>

Next ==
  \/ Mount
  \/ TimerTick
  \/ ManualRefresh
  \/ Unmount
  \/ \E p \in DOMAIN passes : FetchRejects(p)
  \/ \E p \in DOMAIN passes : \E ok \in BOOLEAN : FetchResolves(p, ok)
  \/ \E p \in DOMAIN passes : TextRejects(p)
  \/ \E p \in DOMAIN passes : \E text \in Bodies : TextResolves(p, text)

Spec == Init /\ [][Next]_vars

(***************************************************************************)
(* Scheduling guarantees: React runs the effect, the interval keeps        *)
(* firing while it is registered, and every request resolves or rejects.   *)
(***************************************************************************)
\* the next resolution or rejection of the await pass p is waiting on
Resolve(p) ==
  /\ p \in DOMAIN passes
  /\ \/ FetchRejects(p)
     \/ \E ok \in BOOLEAN : FetchResolves(p, ok)
     \/ TextRejects(p)
     \/ \E text \in Bodies : TextResolves(p, text)

Fairness ==
  /\ WF_vars(Mount)
  /\ WF_vars(TimerTick)
  /\ \A p \in 1..MaxPasses : WF_vars(Resolve(p))

LiveSpec == Init /\ [][Next]_vars /\ Fairness

(***************************************************************************)
(* part_001 with its time filter buttons                                   *)
(***************************************************************************)
\* the main screen is rendered: neither the loading nor the error screen
MainScreen(st) ==
  /\ ~(st.loading /\ st.kpis = null)
  /\ ~(st.error \notin {NoError, ""} /\ st.kpis = null)

\* onClick={() => setState(s => ({ ...s, timeFilter: p }))}
SelectFilter(f) ==
  /\ variant = "part_001"
  /\ effect = "run"
  /\ MainScreen(state)
  /\ state' = setState([state EXCEPT !.timeFilter = f])
  /\ UNCHANGED <<variant, input, passes, effect, timer, now, received, origin>>

FilterInit == Init /\ variant = "part_001"

FilterNext == Next \/ \E f \in Filters : SelectFilter(f)

FilterSpec == FilterInit /\ [][FilterNext]_vars

(***************************************************************************)
(* One pass over a response drawn from a bounded set of texts              *)
(***************************************************************************)
\* longest text enumerated piece by piece
MaxTextLen == 4
\* most rows of the enumerated multi-row tables
MaxRows == 2

\* Numbers are integers; the rate columns 3 and 12 carry tenths (4 is 0.4).
LabelCells == {Str("Jan"), Str(""), VNull, Num(0)}
NumberCells == {Num(7), Num(-3), Str("42"), NoCell}
KpiCells == {Num(5), Num(-2), Num(0), Str("42"), Bool(TRUE), VNull, NoCell}
LoadCells == {Num(0), Num(3), Str("9"), VNull}

\* one-row tables that vary the label and the number of each series
SeriesRows ==
  { Row(<< Num(5), Num(5), Num(5), Num(5), Num(5), l1, n1, l2, n2, l3,
           Num(5), Num(5), n3, Num(3), Num(3) >>) :
      l1 \in LabelCells, n1 \in NumberCells, l2 \in LabelCells,
      n2 \in NumberCells, l3 \in LabelCells, n3 \in NumberCells }

\* one-row tables that vary the summary cells and the two load columns
SummaryRows ==
  { Row(<< k, k, k, k, k, Str("Jan"), n, Str("W1"), n, Str("LinkedIn"),
           k, k, n, a13, a14 >>) :
      k \in KpiCells, n \in NumberCells, a13 \in LoadCells, a14 \in LoadCells }

\* the row of the round-trip example: 10, 5, 2, 0.4, 1000, null, "Jan", 1000
RowExample ==
  Row(<< Num(10), Num(5), Num(2), Num(4), Num(1000), NoCell, Str("Jan"),
         Num(1000) >>)

\* RowA with other numbers under the same labels
RowA2 ==
  Row(<< Num(11), Num(6), Num(3), Num(2), Num(1100), Str("Jan"), Num(1100),
         Str("W1"), Num(8), Str("LinkedIn"), Num(4), Num(2), Num(9), Num(300),
         Num(2) >>)

SampleRows == {RowA, RowA2, RowB, RowC, NoRow, Row(<<>>)}

RECURSIVE SeqsUpTo(_, _)
SeqsUpTo(S, n) ==
  IF n = 0 THEN {<<>>}
  ELSE LET shorter == SeqsUpTo(S, n - 1)
       IN shorter \cup {Append(q, x) : q \in {r \in shorter : Len(r) = n - 1}, x \in S}

Tables ==
  {<<r>> : r \in SeriesRows \cup SummaryRows \cup {RowExample}}
    \cup (SeqsUpTo(SampleRows, MaxRows) \ {<<>>})

Pieces == {LParen, RParen, Junk, Json(TableDoc(<<RowB>>))}

Inputs ==
  {Wrapped(TableDoc(t)) : t \in Tables}
    \cup Bodies
    \cup SeqsUpTo(Pieces, MaxTextLen)

\* the component waits for response.text() of its first pass, or of a second,
\* timer-started pass after the first one has published the table <<RowA>>
FirstPass ==
  /\ state = InitialStateOf(variant)
  /\ passes = << [trigger |-> "startup", pc |-> "text"] >>
  /\ received = << <<>> >>
  /\ origin = 0
  /\ now = 1

RefreshPass ==
  /\ state = [Published(variant, InitialStateOf(variant),
                         [ kpis |-> Kpis(variant, <<RowA>>),
                           revenueTrend |-> RevenueTrend(<<RowA>>),
                           weeklyConversations |-> WeeklyConversations(<<RowA>>),
                           sourceConversions |-> SourceConversions(variant, <<RowA>>) ],
                         1)
                 EXCEPT !.loading = TRUE]
  /\ passes = << [trigger |-> "startup", pc |-> "done"],
                 [trigger |-> "timer", pc |-> "text"] >>
  /\ received = << <<RowA>>, <<>> >>
  /\ origin = 1
  /\ now = 2

PassInit ==
  /\ variant \in Variants
  /\ input \in Inputs
  /\ effect = "run"
  /\ timer = TRUE
  /\ FirstPass \/ RefreshPass

PassNext == \E p \in DOMAIN passes : TextResolves(p, input)

PassSpec == PassInit /\ [][PassNext]_vars

TypeOK ==
  /\ variant \in Variants
  /\ effect \in {"pending", "run", "cleaned"}
  /\ timer \in BOOLEAN
  /\ Len(passes) <= MaxPasses

(***************************************************************************)
(* Vocabulary of the properties                                            *)
(***************************************************************************)
Data(st) ==
  <<st.kpis, st.revenueTrend, st.weeklyConversations, st.sourceConversions>>

\* this step is a fetchData call started by trigger t
StartedBy(t) ==
  /\ Len(passes') = Len(passes) + 1
  /\ passes'[Len(passes')].trigger = t

Started == Len(passes') = Len(passes) + 1

\* this step is the end of pass p
Completed(p) == passes[p].pc # "done" /\ passes'[p].pc = "done"
Succeeded(p) == Completed(p) /\ received'[p] # <<>>
Failed(p) == Completed(p) /\ received'[p] = <<>>

\* the four data fields as normalized from rows
DataOf(v, rows) ==
  <<Kpis(v, rows), RevenueTrend(rows), WeeklyConversations(rows),
    SourceConversions(v, rows)>>

(***************************************************************************)
(* C1: at most one fetch-parse-normalize pass is outstanding in every      *)
(* reachable state.                                                        *)
(***************************************************************************)
C1_AtMostOneOutstanding == Cardinality(inflight) <= 1

(***************************************************************************)
(* C2: a manual refresh trigger received while a pass is in flight starts  *)
(* no new pass and leaves the snapshot unchanged.                          *)
(***************************************************************************)
C2_ManualTriggerNoOpWhileInFlight ==
  [][(inflight # {} /\ ManualRefresh) => (passes' = passes /\ state' = state)]_vars

(***************************************************************************)
(* C3: the publish of a failed pass sets loading = false and a non-empty   *)
(* error message and leaves kpis, revenueTrend, weeklyConversations,       *)
(* sourceConversions and lastUpdated as they were.                         *)
(***************************************************************************)
C3_FailureKeepsData ==
  [][\A p \in DOMAIN passes :
       (Failed(p) /\ mounted) =>
          /\ state'.loading = FALSE
          /\ state'.error \notin {NoError, ""}
          /\ Data(state') = Data(state)
          /\ state'.lastUpdated = state.lastUpdated]_vars

\* a failure was published over the data of an earlier success
C3_Witness ==
  /\ mounted
  /\ origin # 0
  /\ \E q \in DOMAIN passes :
        /\ q > origin
        /\ passes[q].pc = "done"
        /\ received[q] = <<>>
  /\ state.error \notin {NoError, ""}
  /\ Data(state) = DataOf(variant, received[origin])

(***************************************************************************)
(* C4: in every reachable snapshot the four data fields come from one and  *)
(* the same fetch response (or are all still at their initial values).     *)
(***************************************************************************)
C4_DataFromOneResponse ==
  \/ Data(state) = Data(InitialState)
  \/ \E p \in DOMAIN received :
        /\ received[p] # <<>>
        /\ Data(state) = DataOf(variant, received[p])

\* a second, different response has replaced the data of a first one
C4_Witness ==
  /\ origin # 0
  /\ \E p \in DOMAIN received :
        /\ p # origin
        /\ received[p] # <<>>
        /\ DataOf(variant, received[p]) # DataOf(variant, received[origin])
  /\ Data(state) = DataOf(variant, received[origin])

(***************************************************************************)
(* C5: the snapshot a successful pass publishes has error = null,          *)
(* loading = false, a new lastUpdated and the data of that pass's          *)
(* response, in every interleaving.                                        *)
(***************************************************************************)
C5_SuccessPublishesCleanSnapshot ==
  [][\A p \in DOMAIN passes :
       (Succeeded(p) /\ mounted) =>
          /\ state'.error = NoError
          /\ state'.loading = FALSE
          /\ state'.lastUpdated = now
          /\ state'.lastUpdated # state.lastUpdated
          /\ Data(state') = DataOf(variant, received'[p])]_vars

(***************************************************************************)
(* C6: the completion of a pass never replaces the data fields or          *)
(* lastUpdated published by a pass that started after it.                  *)
(***************************************************************************)
C6_NoStaleOverwrite ==
  [][\A p \in DOMAIN passes :
       (Completed(p) /\ origin > p) =>
          /\ Data(state') = Data(state)
          /\ state'.lastUpdated = state.lastUpdated]_vars

C8_NoTimerPassAfterTeardown == [][~mounted => ~StartedBy("timer")]_vars

\* unmounted after the timer had fired, with calls still left in the bound
C8_Witness ==
  /\ ~mounted
  /\ Len(passes) < MaxPasses
  /\ \E p \in DOMAIN passes : passes[p].trigger = "timer"

(***************************************************************************)
(* C9: a timer tick starts a pass only when no pass is in flight.          *)
(***************************************************************************)
C9_TimerStartsOnlyWhenIdle == [][StartedBy("timer") => inflight = {}]_vars

(***************************************************************************)
(* C10: an error on the snapshot is cleared only by a successful pass.     *)
(***************************************************************************)
C10_ErrorClearedOnlyBySuccess ==
  [][(state.error # NoError /\ state'.error = NoError) =>
        \E p \in DOMAIN passes : Succeeded(p)]_vars

(***************************************************************************)
(* C10 as amended: an error on the snapshot is cleared only by the start   *)
(* of a later pass or by a successful pass, and while it is set the data   *)
(* fields change only when a pass succeeds.                                *)
(***************************************************************************)
C10_ErrorClearedByStartOrSuccess ==
  [][state.error # NoError =>
        /\ state'.error = NoError =>
              (Started \/ \E p \in DOMAIN passes : Succeeded(p))
        /\ Data(state') # Data(state) =>
              \E p \in DOMAIN passes : Succeeded(p)]_vars

\* the first pass failed and the start of the second has cleared its error
C10_Witness ==
  /\ mounted
  /\ Len(passes) = 2
  /\ passes[1].pc = "done"
  /\ received[1] = <<>>
  /\ passes[2].pc # "done"
  /\ state.error = NoError

(***************************************************************************)
(* C11: every pass that starts ends, and it ends in a publish, success or  *)
(* failure, that leaves loading = false: no error of the fetch, the parse  *)
(* or the normalization escapes fetchData.                                 *)
(***************************************************************************)
C11_EveryPassEnds ==
  /\ \A p \in 1..MaxPasses :
        (p \in DOMAIN passes) ~> (p \in DOMAIN passes /\ passes[p].pc = "done")
  /\ [][\A p \in DOMAIN passes :
          (Completed(p) /\ mounted) =>
             /\ state'.loading = FALSE
             /\ Succeeded(p) \/ state'.error \notin {NoError, ""}]_vars

\* all passes have ended, the last failure being the TypeError of rows that
\* are not an array
C11_Witness ==
  /\ mounted
  /\ inflight = {}
  /\ Len(passes) >= 2
  /\ state.error = MsgForEach
  /\ ~state.loading

(***************************************************************************)
(* C12: while the component stays mounted the timer starts the next pass   *)
(* without user action, so a snapshot with an error is followed by an      *)
(* error-free snapshot with data unless a pass fails again.                *)
(***************************************************************************)
Failures ==
  Cardinality({p \in DOMAIN passes : passes[p].pc = "done" /\ received[p] = <<>>})

C12_TimerRecovers ==
  /\ \A n \in 1..(MaxPasses - 1) :
        (effect = "run" /\ Len(passes) = n) ~> (~mounted \/ Len(passes) > n)
  /\ \A f \in 1..(MaxPasses - 1) :
        (effect = "run" /\ state.error # NoError /\ Len(passes) < MaxPasses
           /\ Failures = f)
        ~> \/ ~mounted
           \/ Failures > f
           \/ state.error = NoError /\ ~state.loading /\ state.kpis # null

\* a pass failed and a later pass, started by the timer, has published an
\* error-free snapshot
C12_Witness ==
  /\ mounted
  /\ origin # 0
  /\ passes[origin].trigger = "timer"
  /\ \E p \in DOMAIN passes : p < origin /\ passes[p].pc = "done" /\ received[p] = <<>>
  /\ state.error = NoError
  /\ ~state.loading

(***************************************************************************)
(* Vocabulary of the single-pass properties                                *)
(***************************************************************************)
\* the pass under study and whether it has ended
cur == Len(passes)
PassDone == passes[cur].pc = "done"
PassPublished == PassDone /\ received[cur] # <<>>

\* the data on the snapshot before the pass
PriorData ==
  IF cur = 1 THEN Data(InitialState) ELSE DataOf(variant, received[1])

\* the text is a table wrapped in one pair of parentheses
IsWrappedTable(text) ==
  /\ Len(text) = 5
  /\ text[2] = LParen /\ text[4] = RParen
  /\ text[3].k = "json" /\ text[3].doc.kind = "array"

\* the rows of such a text
RowsOf(text) == text[3].doc.rows

CellOf(rows, i, col) == IF rows[i].hasC THEN At(rows[i].c, col) ELSE NoCell

\* a label cell is non-empty: it holds a value other than null and ""
NonEmptyLabel(cell) ==
  \/ cell.t \in {"number", "boolean"}
  \/ cell.t = "string" /\ cell.s # ""

\* the rows, in order, whose label column is non-empty and whose number
\* column holds a number
Qualifying(rows, labelCol, numCol) ==
  LET Test(i) == /\ rows[i].hasC
                 /\ NonEmptyLabel(CellOf(rows, i, labelCol))
                 /\ CellOf(rows, i, numCol).t = "number"
  IN SelectSeq([i \in 1..Len(rows) |-> i], Test)

\* the entries of a series
Entries(series) == {series[j] : j \in 1..Len(series)}

\* the numbers held by the cells of column col
NumbersIn(rows, col) ==
  {CellOf(rows, i, col).n :
     i \in {r \in 1..Len(rows) : CellOf(rows, r, col).t = "number"}}

\* the parsed document has no rows array or an empty one
EmptyDataset(text) ==
  LET parsed == parseGoogleSheetsJSON(text)
  IN /\ parsed.ok
     /\ \/ parsed.rawData.kind = "norows"
        \/ parsed.rawData.kind = "array" /\ parsed.rawData.rows = <<>>

\* the text is a wrapped table with at least one row
HasRows(text) == IsWrappedTable(text) /\ RowsOf(text) # <<>>

(***************************************************************************)
(* C13: a payload with zero rows, or without a rows array, makes the pass  *)
(* fail with the empty-dataset error; nothing of it reaches the snapshot.  *)
(***************************************************************************)
C13_EmptyDatasetFails ==
  (PassDone /\ EmptyDataset(input)) =>
     /\ ~PassPublished
     /\ origin # cur
     /\ Data(state) = PriorData
     /\ state.error = CaughtMessage(variant, MsgNoRecords)
     /\ ~state.loading

\* a refresh that received an empty table has ended over the earlier data
C13_Witness ==
  /\ PassDone
  /\ cur = 2
  /\ input = Wrapped(TableDoc(<<>>))
  /\ state.kpis # null
  /\ state.error # NoError

(***************************************************************************)
(* C14: for a table with at least one row the normalization never throws,  *)
(* and every summary or breakdown number whose cell is absent, null or not *)
(* a number is 0, except activeClientLoad, which is 1.                     *)
(***************************************************************************)
C14_DefaultsForMissingCells ==
  (PassDone /\ HasRows(input)) =>
     /\ PassPublished
     /\ LET rows == RowsOf(input)
            k == state.kpis
            src == state.sourceConversions
            q == Qualifying(rows, 9, 12)
            Missing(i, col) == CellOf(rows, i, col).t # "number"
        IN /\ Missing(1, 0) => k.totalOpportunities = 0
           /\ Missing(1, 1) => k.qualifiedConversations = 0
           /\ Missing(1, 2) => k.convertedClients = 0
           /\ Missing(1, 3) => k.conversionRate = 0
           /\ Missing(1, 4) => k.totalRevenue = 0
           /\ Missing(1, LoadColumn(variant)) => k.activeClientLoad = 1
           /\ \A j \in 1..Len(q) :
                 LET Of(e) == e.source = getStr(CellOf(rows, q[j], 9))
                 IN /\ Missing(q[j], 10) =>
                          \E e \in Entries(src) : Of(e) /\ e.qualified = 0
                    /\ Missing(q[j], 11) =>
                          \E e \in Entries(src) : Of(e) /\ e.converted = 0
                    /\ Missing(q[j], 13) =>
                          \E e \in Entries(src) :
                             /\ Of(e)
                             /\ "revenue" \in DOMAIN e
                             /\ e.revenue = 0

(***************************************************************************)
(* C15: the published activeClientLoad is the number in its row-0 cell,    *)
(* and 1 when that cell is 0, absent, null or not a number; it is never 0. *)
(***************************************************************************)
C15_ActiveClientLoadFloor ==
  (PassPublished /\ HasRows(input)) =>
     LET cell == CellOf(RowsOf(input), 1, LoadColumn(variant))
     IN /\ state.kpis.activeClientLoad =
              (IF cell.t = "number" /\ cell.n # 0 THEN cell.n ELSE 1)
        /\ state.kpis.activeClientLoad # 0

(***************************************************************************)
(* C16: a row adds a revenue entry iff its month cell is non-empty and its *)
(* revenue cell holds a number, an activity entry iff its week cell is     *)
(* non-empty and its count cell holds a number, a source entry iff its     *)
(* source cell is non-empty and its rate cell holds a number; each series  *)
(* decides on its own two columns, for every row including row 0.          *)
(***************************************************************************)
C16_EntryIffLabelAndNumber ==
  (PassPublished /\ HasRows(input)) =>
     LET rows == RowsOf(input)
     IN /\ Len(state.revenueTrend) = Len(Qualifying(rows, 5, 6))
        /\ Len(state.weeklyConversations) = Len(Qualifying(rows, 7, 8))
        /\ Len(state.sourceConversions) = Len(Qualifying(rows, 9, 12))

\* one row with an empty week next to a valid count and a valid month:
\* no activity entry, one revenue entry
C16_Witness ==
  /\ PassPublished /\ HasRows(input)
  /\ Len(RowsOf(input)) = 1
  /\ CellOf(RowsOf(input), 1, 7) = Str("")
  /\ CellOf(RowsOf(input), 1, 8) = Num(7)
  /\ state.weeklyConversations = <<>>
  /\ Len(state.revenueTrend) = 1

\* the rows whose cell in column col holds a number
NumberRows(rows, col) ==
  {i \in 1..Len(rows) : CellOf(rows, i, col).t = "number"}

(***************************************************************************)
(* C17: only a cell whose value has type number counts as numeric.  A      *)
(* string (even "42"), a boolean, null or a missing cell gives 0 in the    *)
(* summary and in a source entry (activeClientLoad: 0 before its fallback, *)
(* so 0 or 1) and never makes its row qualify for a series.                *)
(***************************************************************************)
C17_StrictNumbers ==
  (PassPublished /\ HasRows(input)) =>
     LET rows == RowsOf(input)
         k == state.kpis
         src == state.sourceConversions
         q == Qualifying(rows, 9, 12)
         NotNumber(i, col) == CellOf(rows, i, col).t # "number"
     IN /\ NotNumber(1, 0) => k.totalOpportunities = 0
        /\ NotNumber(1, 1) => k.qualifiedConversations = 0
        /\ NotNumber(1, 2) => k.convertedClients = 0
        /\ NotNumber(1, 3) => k.conversionRate = 0
        /\ NotNumber(1, 4) => k.totalRevenue = 0
        /\ NotNumber(1, LoadColumn(variant)) => k.activeClientLoad \in {0, 1}
        /\ Len(state.revenueTrend) <= Cardinality(NumberRows(rows, 6))
        /\ Len(state.weeklyConversations) <= Cardinality(NumberRows(rows, 8))
        /\ Len(src) <= Cardinality(NumberRows(rows, 12))
        /\ \A j \in 1..Len(src) :
              /\ src[j].qualified \in {0} \cup NumbersIn(rows, 10)
              /\ src[j].converted \in {0} \cup NumbersIn(rows, 11)
              /\ "revenue" \in DOMAIN src[j] =>
                    src[j].revenue \in {0} \cup NumbersIn(rows, 13)
        /\ \A j \in 1..Len(q) :
              LET Of(e) == e.source = getStr(CellOf(rows, q[j], 9))
              IN /\ NotNumber(q[j], 10) =>
                       \E e \in Entries(src) : Of(e) /\ e.qualified = 0
                 /\ NotNumber(q[j], 11) =>
                       \E e \in Entries(src) : Of(e) /\ e.converted = 0

\* row 0 carries the string "42" in its summary cells and under each label
C17_Witness ==
  /\ PassPublished /\ HasRows(input)
  /\ CellOf(RowsOf(input), 1, 0) = Str("42")
  /\ CellOf(RowsOf(input), 1, 6) = Str("42")
  /\ CellOf(RowsOf(input), 1, 5) = Str("Jan")
  /\ state.kpis.totalOpportunities = 0
  /\ state.revenueTrend = <<>>

(***************************************************************************)
(* C18: each published series holds one entry per qualifying row, in the   *)
(* order of the rows, neither sorted nor de-duplicated.                    *)
(***************************************************************************)
C18_SeriesInRowOrder ==
  (PassPublished /\ HasRows(input)) =>
     LET rows == RowsOf(input)
         rev == Qualifying(rows, 5, 6)
         wk == Qualifying(rows, 7, 8)
         sc == Qualifying(rows, 9, 12)
     IN /\ Len(state.revenueTrend) = Len(rev)
        /\ \A j \in 1..Len(rev) :
              /\ state.revenueTrend[j].month = getStr(CellOf(rows, rev[j], 5))
              /\ state.revenueTrend[j].revenue = CellOf(rows, rev[j], 6).n
        /\ Len(state.weeklyConversations) = Len(wk)
        /\ \A j \in 1..Len(wk) :
              /\ state.weeklyConversations[j].week = getStr(CellOf(rows, wk[j], 7))
              /\ state.weeklyConversations[j].count = CellOf(rows, wk[j], 8).n
        /\ Len(state.sourceConversions) = Len(sc)
        /\ \A j \in 1..Len(sc) :
              /\ state.sourceConversions[j].source = getStr(CellOf(rows, sc[j], 9))
              /\ state.sourceConversions[j].qualified =
                    getNum(CellOf(rows, sc[j], 10))
              /\ state.sourceConversions[j].converted =
                    getNum(CellOf(rows, sc[j], 11))

\* the text of the round-trip example
ExampleText == Wrapped(TableDoc(<<RowExample>>))

(***************************************************************************)
(* C19 as stated: the one-row table 10, 5, 2, 0.4, 1000, null, "Jan", 1000 *)
(* gives the summary 10, 5, 2, 0.4, 1000 with activeClientLoad 1 and a     *)
(* revenue series of the single point Jan, 1000.                           *)
(***************************************************************************)
C19_RoundTripExample ==
  (PassPublished /\ input = ExampleText) =>
     /\ state.kpis = [ totalOpportunities |-> 10, qualifiedConversations |-> 5,
                       convertedClients |-> 2, conversionRate |-> 4,
                       totalRevenue |-> 1000, activeClientLoad |-> 1 ]
     /\ state.revenueTrend = <<[month |-> "Jan", revenue |-> 1000]>>

(***************************************************************************)
(* C19 as the code behaves: the same table gives the summary 10, 5, 2,     *)
(* 0.4, 1000 (activeClientLoad 1 in part_001, 0 in App.tsx) and three      *)
(* empty series: the month is read from cell 5, which is null, and the     *)
(* revenue from cell 6, which holds "Jan".                                 *)
(***************************************************************************)
C19_RoundTripAsCoded ==
  (PassPublished /\ input = ExampleText) =>
     /\ state.kpis.totalOpportunities = 10
     /\ state.kpis.qualifiedConversations = 5
     /\ state.kpis.convertedClients = 2
     /\ state.kpis.conversionRate = 4
     /\ state.kpis.totalRevenue = 1000
     /\ state.kpis.activeClientLoad = (IF variant = "part_001" THEN 1 ELSE 0)
     /\ state.revenueTrend = <<>>
     /\ state.weeklyConversations = <<>>
     /\ state.sourceConversions = <<>>

\* the example table has been published
C19_Witness ==
  /\ PassPublished
  /\ input = ExampleText
  /\ received[cur] = <<RowExample>>
  /\ state.kpis.totalRevenue = 1000
  /\ state.revenueTrend = <<>>

\* position of the first "(" of the text, 0 when there is none
FirstOpen(text) == indexOf(text, "(") + 1

\* there is a "(" and a ")" after the first "("
MatchingParens(text) ==
  /\ FirstOpen(text) # 0
  /\ \E j \in DOMAIN text : j > FirstOpen(text) /\ text[j] = RParen

\* what lies between the first "(" and the last ")" of a text that has both
Between(text) ==
  LET close == CHOOSE j \in DOMAIN text :
                  /\ text[j] = RParen
                  /\ \A i \in DOMAIN text : text[i] = RParen => i <= j
  IN SubSeq(text, FirstOpen(text) + 1, close - 1)

\* the text has no matching parentheses, or what they enclose is not JSON
Malformed(text) ==
  \/ ~MatchingParens(text)
  \/ ~(Len(Between(text)) = 1 /\ Between(text)[1].k = "json")

(***************************************************************************)
(* C20: for a text without matching parentheses, or whose extracted part   *)
(* is not valid JSON, parse returns no value, and the pass that called it  *)
(* ends with a non-empty error over unchanged data.                        *)
(***************************************************************************)
C20_ParseRejectsMalformed ==
  (PassDone /\ Malformed(input)) =>
     /\ ~parseGoogleSheetsJSON(input).ok
     /\ ~PassPublished
     /\ state.error \notin {NoError, ""}
     /\ Data(state) = PriorData

(***************************************************************************)
(* C21: for a text with a "(" and a later ")", parse returns the JSON      *)
(* value of what lies strictly between the first "(" and the last ")",     *)
(* whatever precedes the one and follows the other; the pass normalizes    *)
(* the rows of that value.                                                 *)
(***************************************************************************)
C21_ParseBetweenOuterParens ==
  (PassDone /\ MatchingParens(input)) =>
     LET between == Between(input)
         parsed == parseGoogleSheetsJSON(input)
     IN IF Len(between) = 1 /\ between[1].k = "json"
        THEN /\ parsed.ok
             /\ parsed.rawData = between[1].doc
             /\ (between[1].doc.kind = "array" /\ between[1].doc.rows # <<>>) =>
                   received[cur] = between[1].doc.rows
        ELSE ~parsed.ok /\ ~PassPublished

\* a text that starts with ")" and ends with the JSON in parentheses
C21_Witness ==
  /\ PassPublished
  /\ Len(input) = 4
  /\ input[1] = RParen /\ input[2] = LParen /\ input[4] = RParen
  /\ received[cur] = input[3].doc.rows

\* the number a cell holds, 0 when it holds none
NumberOr0(cell) == IF cell.t = "number" THEN cell.n ELSE 0

(***************************************************************************)
(* C22: rates are published as the source number, sign included:           *)
(* conversionRate is the number of row 0, column 3, and the rate of each   *)
(* source entry is the number of its row's column 12.                      *)
(***************************************************************************)
C22_RatesAsIs ==
  (PassPublished /\ HasRows(input)) =>
     LET rows == RowsOf(input)
         q == Qualifying(rows, 9, 12)
     IN /\ state.kpis.conversionRate = NumberOr0(CellOf(rows, 1, 3))
        /\ {e.rate : e \in Entries(state.sourceConversions)} =
              {CellOf(rows, q[j], 12).n : j \in 1..Len(q)}

(***************************************************************************)
(* C23: the counts and the attributed revenue of a published snapshot are  *)
(* never negative, whatever numbers the cells hold.                        *)
(***************************************************************************)
C23_CountsNonNegative ==
  (PassPublished /\ HasRows(input)) =>
     /\ state.kpis.totalOpportunities >= 0
     /\ state.kpis.qualifiedConversations >= 0
     /\ state.kpis.convertedClients >= 0
     /\ state.kpis.activeClientLoad >= 0
     /\ \A e \in Entries(state.sourceConversions) :
           /\ e.qualified >= 0
           /\ e.converted >= 0
           /\ "revenue" \in DOMAIN e => e.revenue >= 0

(***************************************************************************)
(* C24: the summary is read from row 0 alone: it equals the summary of the *)
(* table made of row 0 only, and a summary cell missing from row 0 gives   *)
(* its default even when a later row holds a number there.                 *)
(***************************************************************************)
C24_SummaryFromRowZero ==
  (PassPublished /\ HasRows(input)) =>
     LET rows == RowsOf(input)
         Missing(col) == CellOf(rows, 1, col).t # "number"
     IN /\ state.kpis = Kpis(variant, <<rows[1]>>)
        /\ Missing(0) => state.kpis.totalOpportunities = 0
        /\ Missing(1) => state.kpis.qualifiedConversations = 0
        /\ Missing(2) => state.kpis.convertedClients = 0
        /\ Missing(3) => state.kpis.conversionRate = 0
        /\ Missing(4) => state.kpis.totalRevenue = 0
        /\ Missing(LoadColumn(variant)) => state.kpis.activeClientLoad \in {0, 1}

\* row 0 has no cells and row 1 holds numbers
C24_Witness ==
  /\ PassPublished
  /\ input = Wrapped(TableDoc(<<NoRow, RowA>>))
  /\ state.kpis.totalOpportunities = 0
  /\ state.kpis.totalRevenue = 0
  /\ Len(state.revenueTrend) = 1

(***************************************************************************)
(* C25: rendering never changes the snapshot: after a pass the data fields *)
(* are what its publish wrote, the source series in row order, or, after a *)
(* failure, what they were before.                                         *)
(***************************************************************************)
C25_RenderLeavesSnapshot ==
  PassDone =>
     Data(state) = (IF PassPublished THEN DataOf(variant, received[cur])
                    ELSE PriorData)

(***************************************************************************)
(* C26: once the first pass has started, loading is true exactly while     *)
(* some fetchData call has started and not yet published.                  *)
(***************************************************************************)
C26_LoadingTracksInflight ==
  (mounted /\ passes # <<>>) => (state.loading <=> inflight # {})

(***************************************************************************)
(* C27: the first setState of fetchData sets loading to true and error to  *)
(* null and leaves kpis, the three series and lastUpdated as they were.    *)
(***************************************************************************)
C27_StartKeepsData ==
  [][Started =>
       /\ Data(state') = Data(state)
       /\ state'.lastUpdated = state.lastUpdated
       /\ mounted => (state'.loading = TRUE /\ state'.error = NoError)]_vars

\* a refresh is running over the data of an earlier success
C27_Witness ==
  /\ mounted
  /\ origin # 0
  /\ Len(passes) > origin
  /\ passes[Len(passes)].pc = "fetch"
  /\ state.loading
  /\ state.kpis # null
  /\ Data(state) = DataOf(variant, received[origin])
  /\ state.lastUpdated # NoDate

(***************************************************************************)
(* C28: while the component is mounted kpis is non-null exactly when       *)
(* lastUpdated is, both are null exactly when no pass has succeeded, and   *)
(* then the three series are empty; only a successful pass writes          *)
(* lastUpdated.                                                            *)
(***************************************************************************)
C28_KpisIffLastUpdated ==
  /\ [](mounted =>
          /\ state.kpis # null <=> state.lastUpdated # NoDate
          /\ state.kpis = null <=> (\A p \in DOMAIN received : received[p] = <<>>)
          /\ state.kpis = null =>
                /\ state.revenueTrend = <<>>
                /\ state.weeklyConversations = <<>>
                /\ state.sourceConversions = <<>>)
  /\ [][state'.lastUpdated # state.lastUpdated =>
          \E p \in DOMAIN passes : Succeeded(p)]_vars

\* a failure came first and a success after it
C28_Witness ==
  /\ mounted
  /\ Len(passes) >= 2
  /\ passes[1].pc = "done" /\ received[1] = <<>>
  /\ received[2] # <<>>
  /\ state.kpis # null
  /\ state.lastUpdated # NoDate

(***************************************************************************)
(* C29: in part_001 a step that changes timeFilter changes nothing else of *)
(* the state and starts no pass, and no start or completion of a pass,     *)
(* successful or failed, changes timeFilter.                               *)
(***************************************************************************)
C29_FilterIndependent ==
  [][/\ state'.timeFilter # state.timeFilter =>
          /\ state' = [state EXCEPT !.timeFilter = state'.timeFilter]
          /\ passes' = passes
     /\ (Started \/ \E p \in DOMAIN passes : Completed(p)) =>
          state'.timeFilter = state.timeFilter]_vars

\* 7D is still selected after two published passes, with a third pass running
C29_Witness ==
  /\ mounted
  /\ state.timeFilter = "7D"
  /\ Len(passes) = 3
  /\ received[1] # <<>> /\ passes[2].pc = "done" /\ received[2] # <<>>
  /\ origin = 2
  /\ passes[3].pc = "text"
  /\ state.loading

====
